---- MODULE Spec2Model ----
(***************************************************************************)
(* Model of src/mnest.py: the nested sampling routine nest() and the       *)
(* ellipsoid fit bounding_ellipsoid().                                     *)
(*                                                                         *)
(* Numbers.  The program works on floats; the model works on exact         *)
(* integers and rationals:                                                 *)
(*   - npar = 1.  A position u in the unit cube is k/UMax, stored as k;    *)
(*     k < 0 or k > UMax is a point outside the cube.                      *)
(*   - a log-likelihood is stored in units of 1/(Unit*nobj), so that the   *)
(*     shrink step "logwidth -= 1./nobj" is a step of Unit units.          *)
(*   - logwidth and logwt are c + n units, c one of two irrational         *)
(*     constants: "W0" = log(1 - exp(-1/nobj)) (line 310) and              *)
(*     "LN" = -log(nobj) (line 387).  They are records [c, n].             *)
(*   - logz and h are kept as the sequence of terms folded into them: the  *)
(*     log-sum-exp and the information recurrence are not evaluated.       *)
(* The module is Python 2 (print statements, line 320): "/" between two    *)
(* ints is floor division.                                                 *)
(***************************************************************************)
EXTENDS Integers, Sequences, FiniteSets, TLC

\* ---------------------------------------------------------------- bounds
\* grid resolution of the unit cube: u = k/UMax, k in 0..UMax
UMax == 4
\* model units in one shrink step 1/nobj
Unit == 2
\* the largest maxiter tried
MaxIter == 13
\* loglcalls is counted exactly up to MaxCalls and stays there ("or more")
MaxCalls == 5
\* bounding_ellipsoid: points lie on the grid (0..GridMax)^2, 3..MaxPts points
GridMax == 2
MaxPts == 4

\* ------------------------------------------------------- program constants
\* "if ndecl > 10 and ndecl > it / 6" (line 374)
DeclThreshold == 10
DeclFraction == 6

\* None (lines 306, 315) and an unbound local, as values of the variables' types
None == -1000
Unbound == -1
NoWt == [c |-> "None", n |-> 0]

VARIABLES
    pc,
    \* arguments of nest()
    nobj, maxiter, loglikelihood,
    \* live points
    objects_u, objects_v, objects_logl,
    \* sample record and accumulators
    samples_parvals, samples_logwt, loglstar, h, logz, logwidth, loglcalls,
    \* stopping rule
    ndecl, logwt_old,
    \* locals of the loops
    it, worst, logwt, u, v, logl, i,
    \* return value
    result,
    \* history: the largest value any loglikelihood call has returned
    loglseen,
    \* bounding_ellipsoid: argument, return value, position
    x, ell, epc

nestvars == <<pc, nobj, maxiter, loglikelihood, objects_u, objects_v, objects_logl,
              samples_parvals, samples_logwt, loglstar, h, logz, logwidth, loglcalls,
              ndecl, logwt_old, it, worst, logwt, u, v, logl, i, result, loglseen>>
ellvars == <<x, ell, epc>>
vars == <<nestvars, ellvars>>

\* ------------------------------------------------------------- helpers
Max(S) == CHOOSE m \in S : \A k \in S : k <= m
Min(S) == CHOOSE m \in S : \A k \in S : m <= k
Abs(k) == IF k < 0 THEN -k ELSE k

\* ------------------------------------------------- the caller's functions
\* prior(u): the docstring's example, a flat prior on [0, 2): 2. * u
prior(uu) == 2 * uu

\* the loglikelihood callbacks tried, as functions of the parameter v
LoglNames == {"linear", "flat", "tent"}
LoglOf(name, vv) ==
    CASE name = "linear" -> vv \div 2
      [] name = "flat"   -> 0
      [] name = "tent"   -> UMax - Abs(vv - UMax)

\* candidate positions sample_ellipsoid can return: the cube's grid and one
\* point beyond each face
CandU == -1 .. (UMax + 1)

\* the test of line 352: np.any(u < 0.) or np.any(u > 1.)
OutsideCube(uu) == uu < 0 \/ uu > UMax

\* ellipsoid(objects_u, expand=1.06), line 346: the name is not defined in
\* mnest.py.  Modelled from the design (an ellipsoid enclosing every live
\* point) by the region it covers, taken as large as the candidate grid.
ellipsoid(pts) == CandU

\* sample_ellipsoid(vs, mean): a random point of the ellipsoid
sample_ellipsoid(region) == region

\* ----------------------------------------------------------- nest(): steps
\* np.argmin: the first index of the minimum
ArgMaxFirst(f) == Min({k \in DOMAIN f : f[k] = Max({f[j] : j \in DOMAIN f})})
ArgMin(f) == Min({k \in DOMAIN f : f[k] = Min({f[j] : j \in DOMAIN f})})

\* np.max(objects_logl), line 404
FirstEntry(f) == f[0]
LoglMax(f) == Max({f[k] : k \in DOMAIN f})

\* "if logl > loglstar", line 359
AcceptsGe(ll, lstar) == ll >= lstar
Accepts(ll, lstar) == ll > lstar

\* "if logwt < logwt_old", line 370.  Python 2 orders None below every
\* number, so the test is False while logwt_old is None.
DecliningLe(wt, old) == old # NoWt /\ wt.n <= old.n
Declining(wt, old) == old # NoWt /\ wt.n < old.n

\* "if ndecl > 10 and ndecl > it / 6", line 374 (it / 6 floors: both are ints)
StopNow(nd, iter) == nd > DeclThreshold /\ nd > iter \div DeclFraction

\* objects_x[worst] = value, lines 360-362
ReplaceFirst(f, k, val) == [f EXCEPT ![0] = val]
ReplaceAt(f, k, val) == [f EXCEPT ![k] = val]

\* list.append, lines 338-339 and 395-396
Overwrite(s, e) == IF s = <<>> THEN <<e>> ELSE [s EXCEPT ![Len(s)] = e]
AppendTo(s, e) == Append(s, e)

\* logwidth + objects_logl[k], lines 328 and 389
AddLogl(w, ll) == [c |-> w.c, n |-> w.n + ll]

\* "-len(samples_parvals) / nobj - math.log(nobj)", line 387: the quotient of
\* two ints floors, and is then nobj*Unit units per whole
FinalLogwidth(N, n) == [c |-> "LN", n |-> ((-N) \div n) * n * Unit]

\* loglcalls += 1, counted up to MaxCalls
CountCall(k) == IF k < MaxCalls THEN k + 1 ELSE k

NobjVals == {2, 3}
MaxiterVals == {0, 1, 3, MaxIter}

EllIdle ==
    /\ x = <<>>
    /\ ell = <<>>
    /\ epc = "idle"

\* nest(loglikelihood, prior, npar, nobj, maxiter) is called
Init ==
    /\ pc = "start"
    /\ nobj \in NobjVals
    /\ maxiter \in MaxiterVals
    /\ loglikelihood \in LoglNames
    /\ objects_u = <<>> /\ objects_v = <<>> /\ objects_logl = <<>>
    /\ samples_parvals = <<>> /\ samples_logwt = <<>>
    /\ loglstar = None /\ h = <<>> /\ logz = <<>>
    /\ logwidth = NoWt /\ loglcalls = 0
    /\ ndecl = 0 /\ logwt_old = NoWt
    /\ it = Unbound /\ worst = Unbound /\ logwt = NoWt
    /\ u = None /\ v = None /\ logl = None /\ i = Unbound
    /\ result = <<>>
    /\ loglseen = None
    /\ EllIdle

\* lines 296-316: draw nobj points in the cube (np.random.random: [0, 1),
\* so below UMax), evaluate them, set the accumulators
Initialize ==
    /\ pc = "start"
    /\ \E us \in [0 .. (nobj - 1) -> 0 .. (UMax - 1)] :
         /\ objects_u' = us
         /\ objects_v' = [k \in 0 .. (nobj - 1) |-> prior(us[k])]
         /\ objects_logl' = [k \in 0 .. (nobj - 1) |-> LoglOf(loglikelihood, prior(us[k]))]
         /\ loglseen' = Max({LoglOf(loglikelihood, prior(us[k])) : k \in 0 .. (nobj - 1)})
    /\ samples_parvals' = <<>>
    /\ samples_logwt' = <<>>
    /\ loglstar' = None
    /\ h' = <<>>
    /\ logz' = <<>>
    /\ logwidth' = [c |-> "W0", n |-> 0]
    /\ loglcalls' = IF nobj < MaxCalls THEN nobj ELSE MaxCalls
    /\ ndecl' = 0
    /\ logwt_old' = NoWt
    /\ i' = nobj - 1
    /\ pc' = "loop"
    /\ UNCHANGED <<nobj, maxiter, loglikelihood, it, worst, logwt, u, v, logl, result>>
    /\ UNCHANGED ellvars

\* line 317, range(maxiter) has a next index; lines 326-346
IterateBegin ==
    /\ pc = "loop"
    /\ it + 1 < maxiter
    /\ it' = it + 1
    /\ LET w == ArgMin(objects_logl)
           wt == AddLogl(logwidth, objects_logl[w])
       IN /\ worst' = w
          /\ logwt' = wt
          /\ h' = AppendTo(h, <<wt, objects_logl[w]>>)
          /\ logz' = AppendTo(logz, wt)
          /\ samples_parvals' = AppendTo(samples_parvals, objects_v[w])
          /\ samples_logwt' = AppendTo(samples_logwt, wt)
          /\ loglstar' = objects_logl[w]
    /\ pc' = "sample"
    /\ UNCHANGED <<nobj, maxiter, loglikelihood, objects_u, objects_v, objects_logl,
                   logwidth, loglcalls, ndecl, logwt_old, u, v, logl, i, result, loglseen>>
    /\ UNCHANGED ellvars

\* line 317, range(maxiter) is exhausted: the loop ends, "it" keeps its value
LoopExhausted ==
    /\ pc = "loop"
    /\ ~(it + 1 < maxiter)
    /\ pc' = "finalize"
    /\ UNCHANGED <<nobj, maxiter, loglikelihood, objects_u, objects_v, objects_logl,
                   samples_parvals, samples_logwt, loglstar, h, logz, logwidth, loglcalls,
                   ndecl, logwt_old, it, worst, logwt, u, v, logl, i, result, loglseen>>
    /\ UNCHANGED ellvars

\* lines 351-353: a candidate outside the cube, "continue"
SampleOutside ==
    /\ pc = "sample"
    /\ \E c \in sample_ellipsoid(ellipsoid(objects_u)) :
         /\ OutsideCube(c)
         /\ u' = c
    /\ UNCHANGED <<pc, nobj, maxiter, loglikelihood, objects_u, objects_v, objects_logl,
                   samples_parvals, samples_logwt, loglstar, h, logz, logwidth, loglcalls,
                   ndecl, logwt_old, it, worst, logwt, v, logl, i, result, loglseen>>
    /\ UNCHANGED ellvars

\* lines 351-359: a candidate in the cube that fails "logl > loglstar"
SampleReject ==
    /\ pc = "sample"
    /\ \E c \in sample_ellipsoid(ellipsoid(objects_u)) :
         /\ ~OutsideCube(c)
         /\ ~Accepts(LoglOf(loglikelihood, prior(c)), loglstar)
         /\ u' = c
         /\ v' = prior(c)
         /\ logl' = LoglOf(loglikelihood, prior(c))
         /\ loglseen' = Max({loglseen, LoglOf(loglikelihood, prior(c))})
    /\ loglcalls' = CountCall(loglcalls)
    /\ UNCHANGED <<pc, nobj, maxiter, loglikelihood, objects_u, objects_v, objects_logl,
                   samples_parvals, samples_logwt, loglstar, h, logz, logwidth,
                   ndecl, logwt_old, it, worst, logwt, i, result>>
    /\ UNCHANGED ellvars

\* lines 351-363: a candidate in the cube that passes: it replaces the worst
SampleAccept ==
    /\ pc = "sample"
    /\ \E c \in sample_ellipsoid(ellipsoid(objects_u)) :
         /\ ~OutsideCube(c)
         /\ Accepts(LoglOf(loglikelihood, prior(c)), loglstar)
         /\ u' = c
         /\ v' = prior(c)
         /\ logl' = LoglOf(loglikelihood, prior(c))
         /\ loglseen' = Max({loglseen, LoglOf(loglikelihood, prior(c))})
         /\ objects_u' = ReplaceAt(objects_u, worst, c)
         /\ objects_v' = ReplaceAt(objects_v, worst, prior(c))
         /\ objects_logl' = ReplaceAt(objects_logl, worst, LoglOf(loglikelihood, prior(c)))
    /\ loglcalls' = CountCall(loglcalls)
    /\ pc' = "shrink"
    /\ UNCHANGED <<nobj, maxiter, loglikelihood,
                   samples_parvals, samples_logwt, loglstar, h, logz, logwidth,
                   ndecl, logwt_old, it, worst, logwt, i, result>>
    /\ UNCHANGED ellvars

\* lines 366-376, the stopping rule does not fire: next pass
IterateEnd ==
    /\ pc = "shrink"
    /\ logwidth' = [logwidth EXCEPT !.n = @ - Unit]
    /\ ndecl' = IF Declining(logwt, logwt_old) THEN ndecl + 1 ELSE 0
    /\ ~StopNow(ndecl', it)
    /\ logwt_old' = logwt
    /\ pc' = "loop"
    /\ UNCHANGED <<nobj, maxiter, loglikelihood, objects_u, objects_v, objects_logl,
                   samples_parvals, samples_logwt, loglstar, h, logz, loglcalls,
                   it, worst, logwt, u, v, logl, i, result, loglseen>>
    /\ UNCHANGED ellvars

\* lines 366-375, the stopping rule fires: "break"
IterateBreak ==
    /\ pc = "shrink"
    /\ logwidth' = [logwidth EXCEPT !.n = @ - Unit]
    /\ ndecl' = IF Declining(logwt, logwt_old) THEN ndecl + 1 ELSE 0
    /\ StopNow(ndecl', it)
    /\ pc' = "break"
    /\ UNCHANGED <<nobj, maxiter, loglikelihood, objects_u, objects_v, objects_logl,
                   samples_parvals, samples_logwt, loglstar, h, logz, loglcalls,
                   logwt_old, it, worst, logwt, u, v, logl, i, result, loglseen>>
    /\ UNCHANGED ellvars

\* lines 378-387: after the loop, the width left for each live point
FinalizeBegin ==
    /\ pc \in {"finalize", "break"}
    /\ logwidth' = FinalLogwidth(Len(samples_parvals), nobj)
    /\ i' = Unbound
    /\ pc' = "fold"
    /\ UNCHANGED <<nobj, maxiter, loglikelihood, objects_u, objects_v, objects_logl,
                   samples_parvals, samples_logwt, loglstar, h, logz, loglcalls,
                   ndecl, logwt_old, it, worst, logwt, u, v, logl, result, loglseen>>
    /\ UNCHANGED ellvars

\* lines 388-396: one pass of "for i in range(nobj)"
FinalizeStep ==
    /\ pc = "fold"
    /\ i + 1 < nobj
    /\ i' = i + 1
    /\ LET wt == AddLogl(logwidth, objects_logl[i'])
       IN /\ logwt' = wt
          /\ h' = AppendTo(h, <<wt, objects_logl[i']>>)
          /\ logz' = AppendTo(logz, wt)
          /\ samples_parvals' = AppendTo(samples_parvals, objects_v[i'])
          /\ samples_logwt' = AppendTo(samples_logwt, wt)
    /\ UNCHANGED <<pc, nobj, maxiter, loglikelihood, objects_u, objects_v, objects_logl,
                   loglstar, logwidth, loglcalls, ndecl, logwt_old, it, worst,
                   u, v, logl, result, loglseen>>
    /\ UNCHANGED ellvars

\* lines 398-408: the result dictionary ('niter': it + 1)
Return ==
    /\ pc = "fold"
    /\ ~(i + 1 < nobj)
    /\ it # Unbound
    /\ result' = [niter |-> it + 1,
                  ncalls |-> loglcalls,
                  logz |-> logz,
                  h |-> h,
                  loglmax |-> LoglMax(objects_logl),
                  samples_parvals |-> samples_parvals,
                  samples_wt |-> [k \in 1 .. Len(samples_logwt) |-> <<samples_logwt[k], logz>>]]
    /\ pc' = "done"
    /\ UNCHANGED <<nobj, maxiter, loglikelihood, objects_u, objects_v, objects_logl,
                   samples_parvals, samples_logwt, loglstar, h, logz, logwidth, loglcalls,
                   ndecl, logwt_old, it, worst, logwt, u, v, logl, i, loglseen>>
    /\ UNCHANGED ellvars

\* line 399 when the loop body never ran: "it" is unbound, UnboundLocalError
ReturnUnbound ==
    /\ pc = "fold"
    /\ ~(i + 1 < nobj)
    /\ it = Unbound
    /\ pc' = "error"
    /\ UNCHANGED <<nobj, maxiter, loglikelihood, objects_u, objects_v, objects_logl,
                   samples_parvals, samples_logwt, loglstar, h, logz, logwidth, loglcalls,
                   ndecl, logwt_old, it, worst, logwt, u, v, logl, i, result, loglseen>>
    /\ UNCHANGED ellvars

Next ==
    \/ Initialize
    \/ IterateBegin
    \/ LoopExhausted
    \/ SampleOutside
    \/ SampleReject
    \/ SampleAccept
    \/ IterateEnd
    \/ IterateBreak
    \/ FinalizeBegin
    \/ FinalizeStep
    \/ Return
    \/ ReturnUnbound

Spec == Init /\ [][Next]_vars

\* ------------------------------------------------- bounding_ellipsoid(x)
\* Exact rationals [num, den], den > 0, in lowest terms.
RECURSIVE Gcd(_, _)
Gcd(a, b) == IF b = 0 THEN a ELSE Gcd(b, a % b)
Rat(n, d) ==
    LET g == Gcd(Abs(n), d)
    IN [num |-> n \div g, den |-> d \div g]
RatLe(p, q) == p.num * q.den <= q.num * p.den
RatEq(p, q) == p.num * q.den = q.num * p.den
RatSquare(p) == [num |-> p.num * p.num, den |-> p.den * p.den]

RECURSIVE SumCoord(_, _, _)
SumCoord(pts, k, j) == IF k = 0 THEN 0 ELSE pts[k][j] + SumCoord(pts, k - 1, j)

\* x_mean = np.mean(x, axis=0), line 70: the two coordinate sums over den
Mean(pts) == [s1 |-> SumCoord(pts, Len(pts), 1), s2 |-> SumCoord(pts, Len(pts), 2),
              den |-> Len(pts)]

\* x_prime = x - x_mean, line 71, times the number of points (an integer vector)
Centered(p, mu) == <<mu.den * p[1] - mu.s1, mu.den * p[2] - mu.s2>>

RECURSIVE SumProd(_, _, _, _, _)
SumProd(pts, mu, k, a, b) ==
    IF k = 0 THEN 0
    ELSE Centered(pts[k], mu)[a] * Centered(pts[k], mu)[b] + SumProd(pts, mu, k - 1, a, b)

\* cov = np.cov(x_prime, rowvar=0), line 72: the unbiased estimator, divisor
\* m - 1.  The symmetric matrix [[a, b], [b, d]] / den.
Cov(pts) ==
    LET mu == Mean(pts)
        m == Len(pts)
    IN [a |-> SumProd(pts, mu, m, 1, 1), b |-> SumProd(pts, mu, m, 1, 2),
        d |-> SumProd(pts, mu, m, 2, 2), den |-> m * m * (m - 1)]

Det(cv) == cv.a * cv.d - cv.b * cv.b

\* np.dot(np.dot(p - mean, cov_inv), p - mean), lines 76-78, with
\* cov_inv = den / det * [[d, -b], [-b, a]]; den is a multiple of the square
\* of the number of points, which cancels the scale of the centred vectors
Mahalanobis(cv, mu, p) ==
    LET c == Centered(p, mu)
    IN Rat((cv.den \div (mu.den * mu.den))
               * (cv.d * c[1] * c[1] - 2 * cv.b * c[1] * c[2] + cv.a * c[2] * c[2]),
           Det(cv))

Factors(pts) == {Mahalanobis(Cov(pts), Mean(pts), pts[k]) : k \in 1 .. Len(pts)}
MaxFactor(pts) == CHOOSE q \in Factors(pts) : \A r \in Factors(pts) : RatLe(r, q)

\* f = np.sqrt(np.max(factors)), line 79.  f is kept by its square.
EnlargementSquared(pts) == MaxFactor(pts)

\* return f * cov, x_mean (line 81): the shape f * cov is kept as the pair
\* (f squared, cov)
bounding_ellipsoid(pts) ==
    [fsq |-> EnlargementSquared(pts), cov |-> Cov(pts), center |-> Mean(pts)]

\* (p - center)^T shape^-1 (p - center) <= 1 for shape = f * cov: the form
\* over cov is at most f, that is its square is at most f squared
QuadOverCov(e, p) == Mahalanobis(e.cov, e.center, p)
InsideEllipsoid(e, p) == RatLe(RatSquare(QuadOverCov(e, p)), e.fsq)
OnBoundary(e, p) == RatEq(RatSquare(QuadOverCov(e, p)), e.fsq)

Pt == (0 .. GridMax) \X (0 .. GridMax)
PointSets == UNION {[1 .. m -> Pt] : m \in 3 .. MaxPts}

NestIdle ==
    /\ pc = "idle"
    /\ nobj = 2 /\ maxiter = 0 /\ loglikelihood = "flat"
    /\ objects_u = <<>> /\ objects_v = <<>> /\ objects_logl = <<>>
    /\ samples_parvals = <<>> /\ samples_logwt = <<>>
    /\ loglstar = None /\ h = <<>> /\ logz = <<>>
    /\ logwidth = NoWt /\ loglcalls = 0
    /\ ndecl = 0 /\ logwt_old = NoWt
    /\ it = Unbound /\ worst = Unbound /\ logwt = NoWt
    /\ u = None /\ v = None /\ logl = None /\ i = Unbound
    /\ result = <<>>
    /\ loglseen = None

\* bounding_ellipsoid(x) is called on a point set
EllInit ==
    /\ NestIdle
    /\ x \in PointSets
    /\ ell = <<>>
    /\ epc = "call"

\* lines 70-81 on a point set with an invertible covariance
EllFit ==
    /\ epc = "call"
    /\ Det(Cov(x)) # 0
    /\ ell' = bounding_ellipsoid(x)
    /\ epc' = "done"
    /\ UNCHANGED <<x, nestvars>>

\* line 76: np.linalg.inv raises LinAlgError on a singular covariance
EllSingular ==
    /\ epc = "call"
    /\ Det(Cov(x)) = 0
    /\ epc' = "error"
    /\ UNCHANGED <<x, ell, nestvars>>

EllNext ==
    \/ EllFit
    \/ EllSingular

EllSpec == EllInit /\ [][EllNext]_vars

\* The program keeps running.  The candidates are independent random draws,
\* so a draw inside the cube comes in the end, and so does a draw that can be
\* accepted whenever there is one.
InCubeDraw == SampleReject \/ SampleAccept
FairSpec ==
    /\ Init
    /\ [][Next]_vars
    /\ WF_vars(Next)
    /\ SF_vars(InCubeDraw)
    /\ SF_vars(SampleAccept)

\* ------------------------------------------------------------- properties
Live == 0 .. (nobj - 1)
Changed == {k \in Live : \/ objects_u'[k] # objects_u[k]
                         \/ objects_v'[k] # objects_v[k]
                         \/ objects_logl'[k] # objects_logl[k]}

\* C1: from INIT to DONE the live set holds exactly nobj points; the step
\* that completes the sampling of a pass replaces the entry at the index of
\* the worst point (u, v and logl together) and no other entry, there is one
\* such step per pass, and no other step (a rejected candidate, a candidate
\* outside the cube, the bookkeeping) changes a live point.
C1_Step ==
    /\ pc' \notin {"start", "idle"} =>
          /\ DOMAIN objects_u' = Live
          /\ DOMAIN objects_v' = Live
          /\ DOMAIN objects_logl' = Live
    /\ pc \notin {"start", "idle"} =>
          IF pc = "sample" /\ pc' = "shrink"
          THEN /\ Changed = {worst}
               /\ worst = ArgMin(objects_logl)
               /\ objects_u'[worst] = u'
               /\ objects_v'[worst] = v'
               /\ objects_logl'[worst] = logl'
          ELSE Changed = {}
    /\ pc' = "shrink" => pc = "sample"
    /\ pc = "shrink" => pc' \in {"loop", "break"}
C1_LiveSetFrame == [][C1_Step]_vars
\* a pass has replaced a live point that is not the first one
C1_Witness ==
    /\ pc = "shrink"
    /\ nobj = 3
    /\ worst = 2
    /\ it = 1
    /\ objects_u[worst] = u

\* C2: the point that replaces the worst live point has a log-likelihood
\* strictly above loglstar, the log-likelihood of the point it eliminates; a
\* candidate whose log-likelihood equals loglstar leaves the loop running and
\* the live points as they are.
C2_Step ==
    /\ (pc = "sample" /\ pc' = "shrink") =>
          /\ loglstar = objects_logl[worst]
          /\ objects_logl'[worst] > loglstar
    /\ (pc = "sample" /\ logl' = loglstar) =>
          /\ pc' = "sample"
          /\ UNCHANGED <<objects_u, objects_v, objects_logl>>
    /\ (pc \notin {"start", "idle"} /\ objects_logl' # objects_logl) =>
          \A k \in Live : objects_logl'[k] # objects_logl[k] => objects_logl'[k] > loglstar
C2_StrictlyBetter == [][C2_Step]_vars
\* a replacement made after at least one rejected candidate
C2_Witness ==
    /\ pc = "shrink"
    /\ objects_logl[worst] = logl
    /\ logl > loglstar
    /\ loglcalls > nobj + it + 1

\* the number of most recent consecutive iterations, up to the k-th, whose
\* logwt is strictly below (DeclRun) or not above (DeclRunLe) its predecessor's
RECURSIVE DeclRun(_, _)
DeclRun(s, k) ==
    IF k <= 1 THEN 0
    ELSE IF s[k].n < s[k - 1].n THEN 1 + DeclRun(s, k - 1) ELSE 0
RECURSIVE DeclRunLe(_, _)
DeclRunLe(s, k) ==
    IF k <= 1 THEN 0
    ELSE IF s[k].n <= s[k - 1].n THEN 1 + DeclRunLe(s, k - 1) ELSE 0

\* the pass with index "it" has evaluated the stopping rule
RuleEvaluated == pc \in {"loop", "break"} /\ it # Unbound
StopCondition == ndecl > 10 /\ 6 * ndecl > it

C4_Terminates == (loglikelihood = "flat") => <>(pc \in {"done", "error"})

\* C5: for every maxiter no exception is raised because of the cap, at most
\* maxiter passes run, FINALIZE folds all nobj live points, and the result's
\* niter is the number of passes executed.
C5_CapIsNoError ==
    /\ pc # "error"
    /\ pc = "done" =>
          /\ result.niter <= maxiter
          /\ result.niter = Len(samples_parvals) - nobj
          /\ i = nobj - 1

\* C6: in FINALIZE live point i gets logwt = -N/nobj - log(nobj) + logl_i
\* with the exact quotient N/nobj, N the number of iterations completed:
\* -N*Unit units on top of -log(nobj).
C6_ExactWidth ==
    (pc = "fold" /\ i # Unbound) =>
        logwt = [c |-> "LN",
                 n |-> objects_logl[i] - (Len(samples_parvals) - (i + 1)) * Unit]

\* C7: the sample record is append-only.  A pass appends one record, the
\* parameter values and logwt of the worst point; a FINALIZE step appends
\* one record, that of live point i; no other step touches the record; and
\* at DONE the record, samples_parvals and samples_wt hold niter + nobj
\* entries, the last nobj the live points in index order, with logz and h
\* updated niter + nobj times.
C7_Step ==
    LET n == Len(samples_parvals)
    IN /\ Len(samples_logwt) = n
       /\ Len(samples_logwt') = Len(samples_parvals')
       /\ IF pc = "loop" /\ pc' = "sample"
          THEN /\ samples_parvals' = samples_parvals \o <<objects_v[worst']>>
               /\ samples_logwt' = samples_logwt \o <<logwt'>>
               /\ objects_logl[worst'] = loglstar'
          ELSE IF pc = "fold" /\ pc' = "fold"
          THEN /\ samples_parvals' = samples_parvals \o <<objects_v[i']>>
               /\ samples_logwt' = samples_logwt \o <<logwt'>>
               /\ i' = n - (it + 1)
          ELSE /\ samples_parvals' = samples_parvals
               /\ samples_logwt' = samples_logwt
       /\ Len(logz') = Len(samples_parvals')
       /\ Len(h') = Len(samples_parvals')
       /\ pc' = "done" =>
             /\ Len(samples_parvals') = result'.niter + nobj
             /\ result'.samples_parvals = samples_parvals'
             /\ Len(result'.samples_wt) = result'.niter + nobj
             /\ Len(result'.logz) = result'.niter + nobj
             /\ Len(result'.h) = result'.niter + nobj
             /\ \A k \in Live : samples_parvals'[result'.niter + 1 + k] = objects_v[k]
C7_AppendOnly == [][C7_Step]_vars
\* a run of three passes has returned
C7_Witness ==
    /\ pc = "done"
    /\ result.niter = 3
    /\ nobj = 3
    /\ Len(result.samples_parvals) = 6

\* C8: loglmax of the result is the largest value any loglikelihood call of
\* the run returned (initial points, accepted and rejected candidates).
C8_LoglMax == pc = "done" => result.loglmax = loglseen
\* a run with rejected candidates has returned
C8_Witness ==
    /\ pc = "done"
    /\ result.niter >= 1
    /\ result.ncalls > nobj + result.niter
    /\ result.loglmax > objects_logl[0]

\* C10: the eliminated point is one of minimum log-likelihood, loglstar
\* never decreases, and when a pass has replaced its worst point every live
\* point is at or above that pass's loglstar.
C10_Step ==
    /\ (pc = "loop" /\ pc' = "sample") =>
          /\ \A k \in Live : objects_logl[worst'] <= objects_logl[k]
          /\ loglstar' = objects_logl[worst']
          /\ loglstar # None => loglstar' >= loglstar
    /\ loglstar' # loglstar => (pc = "loop" /\ pc' = "sample")
    /\ pc' \in {"shrink", "loop", "break"} =>
          (loglstar' # None => \A k \in Live : objects_logl'[k] >= loglstar')
C10_ConstraintTightens == [][C10_Step]_vars
\* the constraint has risen over several passes
C10_Witness ==
    /\ pc = "shrink"
    /\ it = 2
    /\ loglstar > samples_logwt[1].n
    /\ \E k \in Live : objects_logl[k] = loglstar

\* C9: the ellipsoid bounding_ellipsoid returns is centred on the mean of
\* the points, its shape is f * C with f the largest squared Mahalanobis
\* distance of a point, every point satisfies
\* (x_i - center)^T shape^-1 (x_i - center) <= 1, and the point at the
\* largest distance meets the bound with equality.
C9_Encloses ==
    epc = "done" =>
        /\ ell.center = Mean(x)
        /\ ell.cov = Cov(x)
        /\ RatEq(ell.fsq, RatSquare(MaxFactor(x)))
        /\ \A k \in 1 .. Len(x) : InsideEllipsoid(ell, x[k])
        /\ \E k \in 1 .. Len(x) :
              /\ RatEq(QuadOverCov(ell, x[k]), MaxFactor(x))
              /\ OnBoundary(ell, x[k])

====
